---- MODULE Spec2Model ----
(***************************************************************************)
(* A model of the transaction tracking core of web3-core-requestmanager:   *)
(* TransactionLifecycle (transactionLifecycle.js), TransactionManager      *)
(* (transactionManager.js) and BlockTracker.                               *)
(*                                                                         *)
(* JavaScript values are modelled as follows.  Strings are strings, the    *)
(* value undefined of a string-valued field is "undefined", a missing      *)
(* number is UndefinedCount, null is the record Null, and a thrown         *)
(* exception is the name of its class in the `error` field of a call's     *)
(* result ("none" when the call returned).                                 *)
(***************************************************************************)
EXTENDS Integers, Sequences, FiniteSets, TLC

\* ------------------------------------------------------------------ bounds
\* Largest number of driver inputs (lifecycle calls, handler attachments,
\* subscription attempts, headers delivered by the node) in one behaviour.
MaxSteps == 4
\* Largest confirmationsRequired a lifecycle is constructed with.
MaxConfirmations == 2

\* ------------------------------------------------------------ JS values
Null == [null |-> TRUE]
Undefined == "undefined"
UndefinedCount == -1

\* A call's outcome: the object after the call and the exception it threw.
Returned(obj) == [obj |-> obj, error |-> "none"]
Thrown(obj, err) == [obj |-> obj, error |-> err]

\* The values passed as allowedStates carry their JavaScript type: a string
\* literal, or an array of strings.
StateName(name) == [typeof |-> "string", value |-> name, items |-> <<>>]
StateNames(names) == [typeof |-> "array", value |-> "", items |-> names]

\* Array.isArray(value)
IsArray(value) == value.typeof = "array"

\* ------------------------------------------------- TransactionLifecycle
\* new TransactionLifecycle(transaction, confirmationsRequired).  The field
\* _state is not assigned by the constructor, so it reads undefined.
\* `emitted` is the sequence of events this EventEmitter has emitted and
\* `listeners` the number of times the manager's handlers were attached;
\* `consumerAt` is the number of them attached before the consumer's
\* listeners (undefined while no consumer is attached) and `received` the
\* events the consumer's listeners were run for.
TransactionLifecycle(transaction, confirmationsRequired) ==
    [_transaction |-> transaction,
     _stage |-> "unsubmitted",
     _state |-> Undefined,
     _receipt |-> Null,
     _confirmationsRequired |-> confirmationsRequired,
     emitted |-> <<>>,
     listeners |-> 0,
     consumerAt |-> UndefinedCount,
     received |-> <<>>]

\* get stage()
stage(this) == this._stage

\* get receipt()
receipt(this) == this._receipt

\* get confirmationsRequired()
confirmationsRequired(this) == this._confirmationsRequired

\* The events a consumer of the lifecycle listens to.
ConsumerEvents == {"mined", "confirmed", "done"}

\* lifecycle.on(event, listener) by a consumer, for each of its events:
\* EventEmitter appends the listener after those already attached, so the
\* consumer's place is after the manager's handlers attached so far.
on(this) == [this EXCEPT !.consumerAt = this.listeners]

\* The consumer's listener run for an event: it notes the event received.
deliver(this, event) ==
    IF this.consumerAt # UndefinedCount /\ event \in ConsumerEvents
    THEN [this EXCEPT !.received = Append(@, event)]
    ELSE this

\* EventEmitter.emit(event) as far as the lifecycle's own record goes: the
\* event is appended to the emission log.  The listeners the manager
\* attached are run by the operation that emits (see setMined).
emit(this, event) ==
    deliver([this EXCEPT !.emitted = Append(@, event)], event)

\* A comparison flipped: the check passes when the two names differ.
_checkPrecondition_flipped(this, allowedStates, desiredState) ==
    IF IsArray(allowedStates) THEN "ReferenceError"
    ELSE IF allowedStates.value = desiredState THEN "Error"
    ELSE "none"

\* _checkPrecondition(allowedStates, desiredState): the exception thrown, or
\* "none".  With an array, `states` is evaluated, which is declared nowhere.
\* Otherwise the two ARGUMENTS are compared with each other; this._state is
\* only read to build the message.
_checkPrecondition(this, allowedStates, desiredState) ==
    IF IsArray(allowedStates) THEN "ReferenceError"
    ELSE IF allowedStates.value # desiredState THEN "Error"
    ELSE "none"

\* setSubmitted(): the manager's "submitted" handler does nothing.
setSubmitted(this) ==
    LET err == _checkPrecondition(this, StateName("unsubmitted"), "submitted") IN
    IF err # "none" THEN Thrown(this, err)
    ELSE Returned(emit([this EXCEPT !._state = "submitted"], "submitted"))

\* setFailedToSubmit(err): the manager's "failedToSubmit" handler does nothing.
setFailedToSubmit(this) ==
    LET err == _checkPrecondition(this, StateName("unsubmitted"), "failedToSubmit") IN
    IF err # "none" THEN Thrown(this, err)
    ELSE Returned(emit(emit([this EXCEPT !._state = "failedToSubmit"],
                            "failedToSubmit"), "done"))

\* setConfirmed(): the manager's "confirmed" handler does nothing.
setConfirmed(this) ==
    LET err == _checkPrecondition(this, StateName("mined"), "confirmed") IN
    IF err # "none" THEN Thrown(this, err)
    ELSE Returned(emit(emit([this EXCEPT !._state = "confirmed"],
                            "confirmed"), "done"))

\* setConfirmedWithError(err)
setConfirmedWithError(this) ==
    LET err == _checkPrecondition(this, StateName("mined"), "confirmedWithError") IN
    IF err # "none" THEN Thrown(this, err)
    ELSE Returned(emit(emit([this EXCEPT !._state = "confirmedWithError"],
                            "confirmedWithError"), "done"))

\* setReorgedOut()
setReorgedOut(this) ==
    LET err == _checkPrecondition(this, StateName("mined"), "reorgedOut") IN
    IF err # "none" THEN Thrown(this, err)
    ELSE Returned(emit(emit([this EXCEPT !._state = "reorgedOut"],
                            "reorgedOut"), "done"))

\* ---------------------------------------- TransactionManager's handlers
\* lifecycle.transactionConfirmationBlocks: the class defines no such
\* property (its getter is confirmationsRequired), so the read is undefined.
transactionConfirmationBlocks(lifecycle) == UndefinedCount

\* !n for a number or undefined
Falsy(n) == n = UndefinedCount \/ n = 0

\* _handleMined(lifecycle, receipt)
_handleMined(lifecycle) ==
    IF Falsy(transactionConfirmationBlocks(lifecycle))
    THEN setConfirmed(lifecycle)
    ELSE Returned(lifecycle)

\* The "mined" listeners, run in the order they were attached; a listener
\* that throws ends the emit and the exception leaves through it.  n is the
\* place of the listener to run next.
RECURSIVE RunMinedListeners(_, _)
RunMinedListeners(lifecycle, n) ==
    LET total == lifecycle.listeners
                    + (IF lifecycle.consumerAt = UndefinedCount THEN 0 ELSE 1)
    IN IF n > total THEN Returned(lifecycle)
       ELSE IF n = lifecycle.consumerAt + 1
       THEN RunMinedListeners(deliver(lifecycle, "mined"), n + 1)
       ELSE LET r == _handleMined(lifecycle) IN
            IF r.error # "none" THEN r
            ELSE RunMinedListeners(r.obj, n + 1)

\* setMined(receipt)
setMined(this, rcpt) ==
    LET err == _checkPrecondition(this, StateName("submitted"), "mined") IN
    IF err # "none" THEN Thrown(this, err)
    ELSE LET mined == [this EXCEPT !._state = "mined", !._receipt = rcpt,
                                   !.emitted = Append(@, "mined")]
         IN RunMinedListeners(mined, 1)

\* _initializeLifecycle(lifecycle): six lifecycle.on(...) calls, with no
\* guard against a second attachment.
_initializeLifecycle(lifecycle) ==
    [lifecycle EXCEPT !.listeners = @ + 1]

\* ---------------------------------------------------------- BlockTracker
\* The names the BlockTracker module can resolve: its two requires, the class
\* and the CommonJS bindings.  `formatters` is not among them.
BlockTrackerScope ==
    {"EventEmitter", "Subscriptions", "BlockTracker", "require", "module",
     "exports"}

\* new BlockTracker(requestManager): _subscription is not assigned, and
\* `emitted` is the sequence of events this EventEmitter has emitted.
BlockTracker ==
    [_latestBlock |-> Null, _subscription |-> Undefined, emitted |-> <<>>]

\* _initializeSubscription(): the options literal reads
\* formatters.outputBlockFormatter before Subscriptions is constructed, which
\* throws as `formatters` is not declared; past it the subscription is
\* stored and its "data" listener attached.
_initializeSubscription(this) ==
    IF "formatters" \notin BlockTrackerScope
    THEN Thrown(this, "ReferenceError")
    ELSE Returned([this EXCEPT !._subscription = "newBlockHeaders"])

\* The "data" listener: (block) => _this.emit("block", block).  _latestBlock
\* is not updated and the parent hash is not looked at.
onData(this, block) ==
    [this EXCEPT !.emitted = Append(@, [event |-> "block", block |-> block])]

\* ------------------------------------------------------- the node's feed
Genesis == [number |-> 0, hash |-> 0, parentHash |-> 0]

\* The node's latest header, given the headers it has announced.
Tip(headers) == IF headers = <<>> THEN Genesis ELSE headers[Len(headers)]

\* The next header the node may announce: one that extends its tip, or one
\* that replaces its tip (a reorganisation of depth one).  Hashes are
\* numbered in the order of announcement.
NextHeaders(headers) ==
    LET tip == Tip(headers)
        h == Len(headers) + 1
    IN {[number |-> tip.number + 1, hash |-> h, parentHash |-> tip.hash]}
       \cup
       (IF headers = <<>> THEN {}
        ELSE {[number |-> tip.number, hash |-> h,
               parentHash |-> tip.parentHash]})

\* The receipts a node can hand out for a transaction mined in its latest
\* block: status is false when execution reverted.
Receipts(headers) ==
    {[blockNumber |-> Tip(headers).number, blockHash |-> Tip(headers).hash,
      status |-> st] : st \in BOOLEAN}

\* ------------------------------------------------ TransactionManager.send
\* The names transactionManager.js can resolve at module level.  The require
\* on line 3 binds TrasactionLifecycle; TransactionLifecycle, tx and _ are
\* bound nowhere.
ManagerScope ==
    {"TrasactionLifecycle", "TransactionManager", "_getWallet",
     "_isSignedTransaction", "require", "module", "exports"}

\* The value undefined where a transaction is expected.
UndefinedValue == [undefined |-> TRUE]

RawPayload == "0xf86b"

\* The transactions send() is given: the signature fields v, r, s (present
\* or not), the raw payload (or undefined) and the from designator.
Transactions ==
    {[v |-> sig[1], r |-> sig[2], s |-> sig[3], rawTransaction |-> raw,
      from |-> from, data |-> "0x", gas |-> "0x5208", gasPrice |-> "0x1",
      to |-> "0xdef"] :
        sig \in {<<FALSE, FALSE, FALSE>>, <<TRUE, TRUE, FALSE>>,
                 <<TRUE, TRUE, TRUE>>},
        raw \in {Undefined, RawPayload},
        from \in {"0xabc", "0xABC", Undefined}}

\* The Method objects send() is given: absent, without accounts, without a
\* wallet, or with a wallet.  A wallet is a function from its property keys
\* (addresses as stored, indices) to the private key of the account stored
\* there, undefined for an account that has none.
Method(hasAccounts, hasWallet, wallet, blocks) ==
    [defined |-> TRUE, hasAccounts |-> hasAccounts, hasWallet |-> hasWallet,
     wallet |-> wallet, transactionConfirmationBlocks |-> blocks]

NoMethod ==
    [defined |-> FALSE, hasAccounts |-> FALSE, hasWallet |-> FALSE,
     wallet |-> <<>>, transactionConfirmationBlocks |-> UndefinedCount]

Methods ==
    {NoMethod} \cup
    {Method(shape[1], shape[2], shape[3], n) :
        shape \in {<<FALSE, FALSE, <<>> >>, <<TRUE, FALSE, <<>> >>,
                   <<TRUE, TRUE, <<>> >>,
                   <<TRUE, TRUE, "0xabc" :> "key1">>,
                   <<TRUE, TRUE, "0xABC" :> "key1">>,
                   <<TRUE, TRUE, "0xabc" :> Undefined>>},
        n \in 0..MaxConfirmations}

\* What the RPC collaborator will answer: (null, result) or (err).
RpcOutcomes == {"result", "error"}

\* _isSignedTransaction(tx)
_isSignedTransaction(tx) ==
    IF tx.v /\ tx.r /\ tx.s THEN TRUE
    ELSE tx.rawTransaction # Undefined

\* String.prototype.toLowerCase on the addresses of the model.
toLowerCase(str) == IF str = "0xABC" THEN "0xabc" ELSE str

\* accounts.wallet[key]: the account stored under the key, or undefined.
WalletEntry(wallet, key) ==
    IF key \in DOMAIN wallet THEN [address |-> key, privateKey |-> wallet[key]]
    ELSE UndefinedValue

\* A from designator: its type, the property key it is coerced to when it
\* indexes the wallet, and its address and privateKey properties (undefined
\* unless it is an account object).
Designator(typeof, value, address, privateKey) ==
    [typeof |-> typeof, value |-> value, address |-> address,
     privateKey |-> privateKey]

StringDesignator(str) == Designator("string", str, Undefined, Undefined)
NullDesignator == Designator("null", "null", Undefined, Undefined)
UndefinedDesignator == Designator("undefined", Undefined, Undefined, Undefined)

\* The designators _getWallet is given: addresses in either case, indices,
\* null, undefined, and account objects with and without a private key.
Designators ==
    {StringDesignator("0xabc"), StringDesignator("0xABC"),
     Designator("number", "0", Undefined, Undefined),
     Designator("number", "1", Undefined, Undefined),
     NullDesignator, UndefinedDesignator,
     Designator("object", "[object Object]", "0xabc", "key2"),
     Designator("object", "[object Object]", "0xabc", Undefined)}

\* The wallet collections _getWallet is given.
WalletKeys == {"0xabc", "0xABC", "0"}
Wallets == UNION {[keys -> {"key1", Undefined}] : keys \in SUBSET WalletKeys}

\* _getWallet(from, accounts): the value the taken branch would assign and
\* the exception thrown.  The local `wallet` is a const binding, so the
\* assignment each branch ends in throws once its right-hand side is
\* evaluated; with from null or undefined the second test throws on
\* from.address, and a designator that is no string has no toLowerCase.
_getWallet(from, accounts) ==
    IF WalletEntry(accounts.wallet, from.value) # UndefinedValue
    THEN Thrown(WalletEntry(accounts.wallet, from.value), "TypeError")
    ELSE IF from.typeof \in {"null", "undefined"}
    THEN Thrown(UndefinedValue, "TypeError")
    ELSE IF from.address # Undefined /\ from.privateKey # Undefined
    THEN Thrown([address |-> from.address, privateKey |-> from.privateKey],
                "TypeError")
    ELSE IF from.typeof # "string"
    THEN Thrown(UndefinedValue, "TypeError")
    ELSE Thrown(WalletEntry(accounts.wallet, toLowerCase(from.value)),
                "TypeError")

\* method.accounts.signTransaction(txOptions, privateKey), the signing
\* collaborator: the transaction with its signature and raw payload.
signTransaction(txOptions, privateKey) ==
    [txOptions EXCEPT !.v = TRUE, !.r = TRUE, !.s = TRUE,
                      !.rawTransaction = RawPayload]

Fulfilled(value, signCalls) ==
    [settled |-> "fulfilled", value |-> value, error |-> "none",
     signCalls |-> signCalls]

Rejected(error) ==
    [settled |-> "rejected", value |-> UndefinedValue, error |-> error,
     signCalls |-> 0]

\* _signIfNecessary(transaction, method): how its promise settles and how
\* often it invoked the signing collaborator.  Past the wallet test it reads
\* `tx`, then `_`; a transaction that is signed already falls off the end of
\* the function, which returns undefined.
_signIfNecessary(transaction, method) ==
    IF \/ ~method.defined
       \/ ~method.hasAccounts
       \/ ~method.hasWallet
       \/ Cardinality(DOMAIN method.wallet) = 0
    THEN Fulfilled(transaction, 0)
    ELSE IF "tx" \notin ManagerScope \cup {"transaction", "method"}
    THEN Rejected("ReferenceError")
    ELSE IF _isSignedTransaction(transaction)
    THEN Fulfilled(UndefinedValue, 0)
    ELSE IF "_" \notin ManagerScope \cup {"transaction", "method"}
    THEN Rejected("ReferenceError")
    ELSE LET from == IF transaction.from = Undefined
                     THEN UndefinedDesignator
                     ELSE StringDesignator(transaction.from)
             found == _getWallet(from, method)
         IN
         IF found.error # "none" THEN Rejected(found.error)
         ELSE IF found.obj = UndefinedValue \/ found.obj.privateKey = Undefined
         THEN Fulfilled(transaction, 0)
         ELSE Fulfilled(signTransaction(transaction, found.obj.privateKey), 1)

\* _submitTransaction(params): the request handed to requestManager.send.
_submitTransaction(params) ==
    [method |-> IF params[1].typeof = "string" THEN "eth_sendRawTransaction"
                ELSE "eth_sendTransaction",
     params |-> params]

\* A send() call in progress: where it is suspended (pc), its arguments, the
\* answer the RPC collaborator will give, the settled _signIfNecessary
\* promise, the lifecycle and request it made, and how its promise settled.
SendCall(pc, transaction, method, rpc, sign) ==
    [pc |-> pc, transaction |-> transaction, method |-> method, rpc |-> rpc,
     sign |-> sign, lifecycle |-> Null, request |-> Null,
     settled |-> "pending", value |-> UndefinedValue, error |-> "none"]

Idle == SendCall("idle", UndefinedValue, NoMethod, "result", Rejected("none"))

Reject(call, error) ==
    [call EXCEPT !.pc = "done", !.settled = "rejected", !.error = error]

\* send() has no return statement: it fulfils with undefined.
Fulfil(call, lifecycle) ==
    [call EXCEPT !.pc = "done", !.settled = "fulfilled",
                 !.lifecycle = lifecycle]

\* send, lines 23-37: from the signed transaction to the request.
sendSubmit(call) ==
    IF call.sign.value = UndefinedValue THEN Reject(call, "TypeError")
    ELSE LET signedTransaction == call.sign.value
             isSigned == _isSignedTransaction(signedTransaction)
         IN
         IF "TransactionLifecycle" \notin
               ManagerScope \cup {"transaction", "method", "signedTransaction",
                                  "lifecycle", "params"}
         THEN Reject(call, "ReferenceError")
         ELSE IF isSigned /\ ~call.method.defined
         THEN Reject(call, "TypeError")
         ELSE LET lifecycle ==
                    IF isSigned
                    THEN TransactionLifecycle(signedTransaction,
                            call.method.transactionConfirmationBlocks)
                    ELSE TransactionLifecycle(call.transaction, UndefinedCount)
                  params ==
                    IF isSigned
                    THEN <<IF signedTransaction.rawTransaction = Undefined
                           THEN [typeof |-> "undefined", value |-> Undefined]
                           ELSE [typeof |-> "string",
                                 value |-> signedTransaction.rawTransaction]>>
                    ELSE <<[typeof |-> "object",
                            data |-> call.transaction.data,
                            from |-> call.transaction.from,
                            gas |-> call.transaction.gas,
                            gasPrice |-> call.transaction.gasPrice,
                            to |-> call.transaction.to]>>
              IN [call EXCEPT !.pc = "awaitSubmit",
                              !.lifecycle = lifecycle,
                              !.request = _submitTransaction(params)]

\* The signing failure swallowed: send() ends normally although
\* _signIfNecessary rejected.
sendAfterSign_swallowed(call) ==
    IF call.sign.settled = "rejected" THEN Fulfil(call, Null)
    ELSE sendSubmit(call)

\* send, line 18: the await of _signIfNecessary is outside the try block, so
\* its rejection leaves send() at once.
sendAfterSign(call) ==
    IF call.sign.settled = "rejected" THEN Reject(call, call.sign.error)
    ELSE sendSubmit(call)

\* send, lines 37-41: from the RPC collaborator's answer to the end.  An
\* exception of setSubmitted is caught like a rejected submission.
sendAfterSubmit(call) ==
    LET submitted == IF call.rpc = "result" THEN setSubmitted(call.lifecycle)
                     ELSE Thrown(call.lifecycle, "SubmissionError")
    IN IF submitted.error = "none" THEN Fulfil(call, submitted.obj)
       ELSE LET failed == setFailedToSubmit(submitted.obj) IN
            IF failed.error = "none" THEN Fulfil(call, failed.obj)
            ELSE [Reject(call, failed.error) EXCEPT !.lifecycle = failed.obj]

\* send(transaction, method) up to its first await.
send(transaction, method, rpc) ==
    SendCall("awaitSign", transaction, method, rpc,
             _signIfNecessary(transaction, method))

\* The continuation of a suspended send().
resume(call) ==
    IF call.pc = "awaitSign" THEN sendAfterSign(call)
    ELSE sendAfterSubmit(call)

\* ------------------------------------------------------------------ state
VARIABLES
    lifecycle,     \* the TransactionLifecycle being driven
    blockTracker,  \* the BlockTracker
    feed,          \* the headers the node has announced, in order
    history,       \* the calls made so far, with the exception each threw
    sendCall,      \* the send() call in progress
    requests,      \* the requests the RPC collaborator has received
    signCalls,     \* how often the signing collaborator was invoked
    walletCall     \* the latest _getWallet call: arguments and outcome

trackVars == <<lifecycle, blockTracker, feed, history>>
sendVars == <<sendCall, requests, signCalls>>
vars == <<lifecycle, blockTracker, feed, history, sendCall, requests,
          signCalls, walletCall>>

\* A logged call: the operation, its argument, the exception it threw and
\* what the lifecycle's stage getter returned when the call was made.
Call(op, arg, error) ==
    [op |-> op, arg |-> arg, error |-> error, stage |-> stage(lifecycle)]

LastCall == IF history = <<>> THEN Call("none", Null, "none")
            ELSE history[Len(history)]

Init ==
    /\ \E n \in 0..MaxConfirmations :
          lifecycle = TransactionLifecycle("transaction", n)
    /\ blockTracker = BlockTracker
    /\ feed = <<>>
    /\ history = <<>>
    /\ sendCall = Idle
    /\ requests = <<>>
    /\ signCalls = 0
    /\ walletCall = Null

\* A call of a lifecycle operation: the object is left as the call left it
\* and the call is logged with the exception it threw.
Apply(op, arg, result) ==
    /\ Len(history) < MaxSteps
    /\ lifecycle' = result.obj
    /\ history' = Append(history, Call(op, arg, result.error))
    /\ UNCHANGED <<blockTracker, feed, sendVars, walletCall>>

SetSubmitted == Apply("setSubmitted", Null, setSubmitted(lifecycle))

SetFailedToSubmit ==
    Apply("setFailedToSubmit", Null, setFailedToSubmit(lifecycle))

SetMined ==
    \E rcpt \in Receipts(feed) :
        Apply("setMined", rcpt, setMined(lifecycle, rcpt))

SetConfirmed == Apply("setConfirmed", Null, setConfirmed(lifecycle))

SetConfirmedWithError ==
    Apply("setConfirmedWithError", Null, setConfirmedWithError(lifecycle))

SetReorgedOut == Apply("setReorgedOut", Null, setReorgedOut(lifecycle))

\* manager._initializeLifecycle(lifecycle)
InitializeLifecycle ==
    /\ Len(history) < MaxSteps
    /\ lifecycle' = _initializeLifecycle(lifecycle)
    /\ history' = Append(history, Call("_initializeLifecycle", Null, "none"))
    /\ UNCHANGED <<blockTracker, feed, sendVars, walletCall>>

\* A consumer attaches its listeners to the lifecycle (once).
RegisterConsumer ==
    /\ lifecycle.consumerAt = UndefinedCount
    /\ Apply("on", Null, Returned(on(lifecycle)))

\* blockTracker._initializeSubscription()
InitializeSubscription ==
    /\ Len(history) < MaxSteps
    /\ LET result == _initializeSubscription(blockTracker) IN
       /\ blockTracker' = result.obj
       /\ history' = Append(history,
                        Call("_initializeSubscription", Null, result.error))
    /\ UNCHANGED <<lifecycle, feed, sendVars, walletCall>>

\* The node announces a header.  It reaches the tracker's "data" listener
\* only if the tracker holds a subscription.
NewHeader ==
    /\ Len(history) < MaxSteps
    /\ \E block \in NextHeaders(feed) :
        /\ feed' = Append(feed, block)
        /\ blockTracker' =
              IF blockTracker._subscription # Undefined
              THEN onData(blockTracker, block)
              ELSE blockTracker
        /\ history' = Append(history, Call("newHeader", block, "none"))
    /\ UNCHANGED <<lifecycle, sendVars, walletCall>>

Next ==
    \/ SetSubmitted
    \/ SetFailedToSubmit
    \/ SetMined
    \/ SetConfirmed
    \/ SetConfirmedWithError
    \/ SetReorgedOut
    \/ InitializeLifecycle
    \/ RegisterConsumer
    \/ InitializeSubscription
    \/ NewHeader

Spec == Init /\ [][Next]_vars

\* manager.send(transaction, method) is called and runs to its first await.
Send ==
    /\ sendCall.pc = "idle"
    /\ \E transaction \in Transactions, method \in Methods,
          rpc \in RpcOutcomes :
        /\ sendCall' = send(transaction, method, rpc)
        /\ signCalls' = signCalls + sendCall'.sign.signCalls
    /\ UNCHANGED <<requests, trackVars, walletCall>>

\* The awaited promise has settled and send() runs on, to its next await or
\* to its end.
ResumeSend ==
    /\ sendCall.pc \in {"awaitSign", "awaitSubmit"}
    /\ sendCall' = resume(sendCall)
    /\ requests' = IF sendCall.pc = "awaitSign" /\ sendCall'.request # Null
                   THEN Append(requests, sendCall'.request)
                   ELSE requests
    /\ UNCHANGED <<signCalls, trackVars, walletCall>>

NextSend ==
    \/ Send
    \/ ResumeSend

SpecSend == Init /\ [][NextSend]_vars

\* _getWallet(from, accounts) is called with a designator and a wallet.
GetWallet ==
    /\ \E from \in Designators, wallet \in Wallets :
          walletCall' =
              [from |-> from, wallet |-> wallet,
               result |-> _getWallet(from, [wallet |-> wallet])]
    /\ UNCHANGED <<trackVars, sendVars>>

NextWallet == GetWallet

SpecWallet == Init /\ [][NextWallet]_vars

\* ------------------------------------------------------------ the claims
\* The transition table of the lifecycle: operation |-> <<required stage,
\* new stage>>.
TransitionTable ==
    [setSubmitted |-> <<"unsubmitted", "submitted">>,
     setFailedToSubmit |-> <<"unsubmitted", "failedToSubmit">>,
     setMined |-> <<"submitted", "mined">>,
     setConfirmed |-> <<"mined", "confirmed">>,
     setConfirmedWithError |-> <<"mined", "confirmedWithError">>,
     setReorgedOut |-> <<"mined", "reorgedOut">>]

LifecycleOps == DOMAIN TransitionTable
Required(op) == TransitionTable[op][1]
NewStage(op) == TransitionTable[op][2]
TerminalOps ==
    {"setFailedToSubmit", "setConfirmed", "setConfirmedWithError",
     "setReorgedOut"}
TerminalStages ==
    {"failedToSubmit", "confirmed", "confirmedWithError", "reorgedOut"}

\* The operations of the calls logged, in order.
RECURSIVE OpsOf(_)
OpsOf(log) == IF log = <<>> THEN <<>>
              ELSE <<Head(log).op>> \o OpsOf(Tail(log))

\* How often an event was emitted.
Count(events, event) ==
    Cardinality({k \in DOMAIN events : events[k] = event})

\* A change of a stage field from `old` to `new` by a step is an edge of the
\* transition graph, taken by the operation that owns the edge.
EdgeTaken(old, new, call) ==
    old # new =>
        /\ call.op \in LifecycleOps
        /\ Required(call.op) = old
        /\ NewStage(call.op) = new

\* C1: over any sequence of calls of the six transition operations, valid or
\* not, every change of the lifecycle's stage (the field behind the stage
\* getter, and the field the operations assign) is an edge of the graph
\* Unsubmitted->Submitted->Mined->{Confirmed, ConfirmedWithError,
\* ReorgedOut}, Unsubmitted->FailedToSubmit, made by the operation whose
\* required stage is the stage before the step.
C1_StagePath ==
    [][/\ EdgeTaken(lifecycle._stage, lifecycle'._stage, LastCall')
       /\ EdgeTaken(lifecycle._state, lifecycle'._state, LastCall')]_vars

\* C1 witness: operations were called out of order (setConfirmed, then
\* setMined, then setSubmitted) and the stage is where it started.
C1_Witness ==
    /\ Len(history) >= 3
    /\ OpsOf(SubSeq(history, 1, 3)) =
          <<"setConfirmed", "setMined", "setSubmitted">>
    /\ stage(lifecycle) = "unsubmitted"

\* C2: a transition operation called while the stage getter returns its
\* required stage raises no error, and afterwards the getter returns the new
\* stage of the transition table.
C2_ValidTransitionSucceeds ==
    (LastCall.op \in LifecycleOps /\ LastCall.stage = Required(LastCall.op))
        => /\ LastCall.error = "none"
           /\ stage(lifecycle) = NewStage(LastCall.op)

\* C3: a transition operation called while the stage getter does not return
\* its required stage fails with the invalid-transition error, and the failed
\* call leaves stage and receipt unchanged and emits no event.
C3_InvalidTransitionFails ==
    [][(/\ history' # history
        /\ LastCall'.op \in LifecycleOps
        /\ stage(lifecycle) # Required(LastCall'.op))
       => /\ LastCall'.error = "Error"
          /\ lifecycle'._stage = lifecycle._stage
          /\ lifecycle'._state = lifecycle._state
          /\ lifecycle'._receipt = lifecycle._receipt
          /\ lifecycle'.emitted = lifecycle.emitted]_vars

\* C3 witness: setMined was called twice away from its required stage, the
\* second call failed, and there is no receipt and no event.
C3_Witness ==
    /\ Len(history) >= 2
    /\ history[1].op = "setMined"
    /\ history[2].op = "setMined"
    /\ history[2].stage # "submitted"
    /\ history[2].error = "Error"
    /\ receipt(lifecycle) = Null
    /\ lifecycle.emitted = <<>>

\* C4: `done` is emitted at most once; exactly once when a terminal
\* operation was called in its required stage (the lifecycle then reaches a
\* terminal stage); never by setSubmitted or setMined, but directly after the
\* stage event of a terminal transition.
C4_DoneExactlyOnce ==
    /\ Count(lifecycle.emitted, "done") <= 1
    /\ (\E i \in DOMAIN history :
            /\ history[i].op \in TerminalOps
            /\ history[i].stage = Required(history[i].op))
       => Count(lifecycle.emitted, "done") = 1
    /\ \A k \in DOMAIN lifecycle.emitted :
          lifecycle.emitted[k] = "done"
              => k > 1 /\ lifecycle.emitted[k - 1] \in TerminalStages

\* C5: receipt is non-null if and only if stage is one of Mined, Confirmed,
\* ConfirmedWithError, ReorgedOut.
C5_ReceiptIffMined ==
    (receipt(lifecycle) # Null)
        <=> stage(lifecycle) \in
                {"mined", "confirmed", "confirmedWithError", "reorgedOut"}

\* C5 witness: setSubmitted and then setMined(receipt) were called, and the
\* invariant's two sides agree.
C5_Witness ==
    /\ Len(history) >= 2
    /\ OpsOf(SubSeq(history, 1, 2)) = <<"setSubmitted", "setMined">>
    /\ history[2].arg # Null
    /\ receipt(lifecycle) = Null
    /\ stage(lifecycle) = "unsubmitted"

\* C6: a send() call whose signing step completed resolves with the
\* Lifecycle it created, in stage Submitted when the RPC collaborator returns
\* a result and in stage FailedToSubmit when it returns an error.
C6_SendResolvesWithLifecycle ==
    (sendCall.pc = "done" /\ sendCall.sign.settled = "fulfilled")
        => /\ sendCall.settled = "fulfilled"
           /\ sendCall.lifecycle # Null
           /\ sendCall.value = sendCall.lifecycle
           /\ stage(sendCall.lifecycle) =
                 IF sendCall.rpc = "result" THEN "submitted"
                 ELSE "failedToSubmit"

\* The manager attached its handlers to the lifecycle, then setSubmitted and
\* setMined(receipt) were called on it: the first three calls of the log.
ManagedAndMined ==
    /\ Len(history) >= 3
    /\ OpsOf(SubSeq(history, 1, 3)) =
          <<"_initializeLifecycle", "setSubmitted", "setMined">>

\* C7: with confirmationsRequired = 0, once setMined(receipt) was called on
\* a submitted lifecycle the manager handles, the lifecycle is Confirmed and
\* has emitted mined, confirmed, done, before any header was announced.
C7_ZeroConfirmations ==
    (/\ ManagedAndMined
     /\ Len(history) = 3
     /\ confirmationsRequired(lifecycle) = 0)
        => /\ stage(lifecycle) = "confirmed"
           /\ lifecycle.emitted = <<"submitted", "mined", "confirmed", "done">>

\* The headers announced after the first three calls of the log extend the
\* mined block one by one: heights h+1, h+2, ... with no reorganisation.
ExtendsMinedBlock(i) ==
    /\ history[i].op = "newHeader"
    /\ history[i].arg.number = history[3].arg.blockNumber + (i - 3)
    /\ history[i].arg.parentHash =
          IF i = 4 THEN history[3].arg.blockHash ELSE history[i - 1].arg.hash

\* C8: with confirmationsRequired = N >= 1 and the lifecycle mined at height
\* h, after headers h+1 .. h+k (k <= N) and no reorganisation the lifecycle
\* is Confirmed exactly when k = N: not at setMined, not before the N-th
\* header, and as soon as the N-th header was announced.
C8_ConfirmedAfterNBlocks ==
    (/\ ManagedAndMined
     /\ confirmationsRequired(lifecycle) >= 1
     /\ Len(history) - 3 <= confirmationsRequired(lifecycle)
     /\ \A i \in 4..Len(history) : ExtendsMinedBlock(i))
        => ((stage(lifecycle) = "confirmed")
               <=> (Len(history) - 3 = confirmationsRequired(lifecycle)))

\* C9: when the block a lifecycle was mined in is detached by a
\* reorganisation (the next header replaces it) while the lifecycle is in
\* Mined, the lifecycle is ReorgedOut.
C9_ReorgedOut ==
    (/\ Len(history) = 4
     /\ OpsOf(history) = <<"newHeader", "setSubmitted", "setMined", "newHeader">>
     /\ confirmationsRequired(lifecycle) >= 1
     /\ history[3].arg.blockHash = history[1].arg.hash
     /\ history[4].arg.number = history[1].arg.number)
        => stage(lifecycle) = "reorgedOut"

\* C10: for a transaction that carries a raw payload, when send() has run
\* the signing collaborator was not invoked and the one RPC request issued
\* is eth_sendRawTransaction with the raw payload as its single parameter.
C10_RawSubmission ==
    (sendCall.pc = "done" /\ sendCall.transaction.rawTransaction # Undefined)
        => /\ signCalls = 0
           /\ requests =
                 <<[method |-> "eth_sendRawTransaction",
                    params |-> <<[typeof |-> "string",
                                  value |-> sendCall.transaction.rawTransaction]>>]>>

\* The keys of a wallet that hold key material and equal an address but for
\* letter case.
SameAddress(wallet, address) ==
    {k \in DOMAIN wallet :
        toLowerCase(k) = toLowerCase(address) /\ wallet[k] # Undefined}

\* C11: wallet resolution by address is case-insensitive: for a string
\* designator that equals a key of the wallet but for letter case,
\* _getWallet returns the account stored under that key.
C11_CaseInsensitiveLookup ==
    (/\ walletCall # Null
     /\ walletCall.from.typeof = "string"
     /\ SameAddress(walletCall.wallet, walletCall.from.value) # {})
        => /\ walletCall.result.error = "none"
           /\ walletCall.result.obj # UndefinedValue
           /\ \E k \in SameAddress(walletCall.wallet, walletCall.from.value) :
                 walletCall.result.obj.privateKey = walletCall.wallet[k]

\* The plain fields of a transaction, as submitted for remote signing.
PlainFields(transaction) ==
    [typeof |-> "object", data |-> transaction.data,
     from |-> transaction.from, gas |-> transaction.gas,
     gasPrice |-> transaction.gasPrice, to |-> transaction.to]

\* C12: for an unsigned transaction whose from designator resolves to no key
\* material (from missing, no key stored under the address in any letter
\* case, or the account stored has no private key), send() does not fail,
\* does not sign, and requests eth_sendTransaction with the plain fields.
C12_RemoteSigningFallback ==
    (/\ sendCall.pc = "done"
     /\ ~_isSignedTransaction(sendCall.transaction)
     /\ \/ sendCall.transaction.from = Undefined
        \/ SameAddress(sendCall.method.wallet, sendCall.transaction.from) = {})
        => /\ sendCall.settled = "fulfilled"
           /\ signCalls = 0
           /\ requests =
                 <<[method |-> "eth_sendTransaction",
                    params |-> <<PlainFields(sendCall.transaction)>>]>>

\* C13: if local signing fails during send(), the call rejects with that
\* failure, no RPC request is issued for it and no Lifecycle is created, so
\* no transition or event occurs.
C13_SigningFailureRejects ==
    (sendCall.pc # "idle" /\ sendCall.sign.settled = "rejected")
        => /\ requests = <<>>
           /\ sendCall.request = Null
           /\ sendCall.lifecycle = Null
           /\ sendCall.settled # "fulfilled"
           /\ sendCall.pc = "done" =>
                 /\ sendCall.settled = "rejected"
                 /\ sendCall.error = sendCall.sign.error

\* C13 witness: a send() whose signing step rejected has ended.
C13_Witness ==
    /\ sendCall.pc = "done"
    /\ sendCall.sign.settled = "rejected"
    /\ sendCall.sign.error = "ReferenceError"
    /\ Cardinality(DOMAIN sendCall.method.wallet) > 0
    /\ sendCall.settled = "rejected"
    /\ requests = <<>>

\* The calls of the log from the second on are announcements of headers
\* that each extend the one before (the first one extends the genesis).
OnlyExtendingHeaders ==
    \A i \in 2..Len(history) :
        /\ history[i].op = "newHeader"
        /\ history[i].arg.parentHash =
              IF i = 2 THEN Genesis.hash ELSE history[i - 1].arg.hash

\* C14: once the tracker was initialised, the chain-extending headers the
\* feed delivers are emitted as `block` events one by one in the order of
\* arrival, and after each emission latestBlock is the header last accepted.
C14_BlocksInArrivalOrder ==
    (/\ history # <<>>
     /\ history[1].op = "_initializeSubscription"
     /\ OnlyExtendingHeaders)
        => /\ Len(blockTracker.emitted) = Len(feed)
           /\ \A i \in 1..Len(feed) :
                 /\ i <= Len(blockTracker.emitted)
                 /\ blockTracker.emitted[i] =
                       [event |-> "block", block |-> feed[i]]
           /\ feed # <<>> => blockTracker._latestBlock = Tip(feed)

\* The positions of the `reorg` events among the tracker's emissions.
ReorgEmissions ==
    {i \in 1..Len(blockTracker.emitted) :
        blockTracker.emitted[i].event = "reorg"}

\* C15: when an initialised tracker that has seen a header receives one
\* whose parent hash differs from the hash of the latest block, it emits
\* exactly one `reorg` event, before any `block` event for the attached
\* header.
C15_ReorgEmitted ==
    (/\ Len(history) = 3
     /\ OpsOf(history) = <<"_initializeSubscription", "newHeader", "newHeader">>
     /\ history[3].arg.parentHash # history[2].arg.hash)
        => /\ Cardinality(ReorgEmissions) = 1
           /\ \A j \in 1..Len(blockTracker.emitted) :
                 (/\ blockTracker.emitted[j].event = "block"
                  /\ blockTracker.emitted[j].block = history[3].arg)
                     => \E i \in ReorgEmissions : i < j

\* C16: the manager's handlers are attached to a lifecycle exactly once,
\* however often its initialisation was requested: once
\* _initializeLifecycle was called, each event runs its handler once.
C16_HandlersAttachedOnce ==
    (\E i \in 1..Len(history) : history[i].op = "_initializeLifecycle")
        => lifecycle.listeners = 1

\* C17: when the confirmation count of a mined lifecycle the manager handles
\* reaches confirmationsRequired (here 0, reached at setMined) and the
\* receipt reports a failed execution, the lifecycle ends in
\* ConfirmedWithError and never in Confirmed; with a successful receipt it
\* ends in Confirmed.
C17_FailedReceiptConfirmedWithError ==
    (/\ ManagedAndMined
     /\ Len(history) = 3
     /\ confirmationsRequired(lifecycle) = 0)
        => IF history[3].arg.status
           THEN stage(lifecycle) = "confirmed"
           ELSE /\ stage(lifecycle) = "confirmedWithError"
                /\ Count(lifecycle.emitted, "confirmedWithError") = 1
                /\ Count(lifecycle.emitted, "confirmed") = 0

\* C18: the value send() submits goes out by exactly one request, whose
\* method is eth_sendRawTransaction if and only if _isSignedTransaction
\* classifies the value as signed (a v/r/s triple alone included), and
\* eth_sendTransaction with the plain fields otherwise.
C18_MethodMatchesClassification ==
    (/\ sendCall.pc = "done"
     /\ sendCall.sign.settled = "fulfilled"
     /\ sendCall.sign.value # UndefinedValue)
        => /\ Len(requests) = 1
           /\ (requests[1].method = "eth_sendRawTransaction")
                 <=> _isSignedTransaction(sendCall.sign.value)
           /\ (requests[1].method = "eth_sendTransaction")
                 <=> ~_isSignedTransaction(sendCall.sign.value)
           /\ ~_isSignedTransaction(sendCall.sign.value)
                 => requests[1].params
                       = <<PlainFields(sendCall.transaction)>>

\* C20: a consumer listening to mined, confirmed and done receives them in
\* transition order whether it registered before or after the manager's
\* handlers: with confirmationsRequired = 0, after setSubmitted and setMined
\* it has received mined, then confirmed, then done.
C20_ConsumerSeesTransitionOrder ==
    (/\ Len(history) = 4
     /\ {history[1].op, history[2].op} = {"_initializeLifecycle", "on"}
     /\ history[3].op = "setSubmitted"
     /\ history[4].op = "setMined"
     /\ confirmationsRequired(lifecycle) = 0)
        => lifecycle.received = <<"mined", "confirmed", "done">>

====
